---- MODULE Spec2Model ----
(***************************************************************************)
(* State-machine model of the MarketAlert news pipeline.                   *)
(*                                                                         *)
(* Three of the repository's scripts are modelled, selected by `script`:   *)
(*   "New_Ex"      src/MarketAlert_New_Ex.py  (scrape, filter, send,       *)
(*                 archive merge, identity store, tenacity retry)          *)
(*   "MarketAlert" src/MarketAlert.py         (same shape, filters         *)
(*                 disabled, guid identities, RSS sources)                 *)
(*   "NewMA"       src/NewMA.py               (title-keyed store, claim    *)
(*                 before send, thread pool)                               *)
(* The web pages, the chat endpoint and the initial contents of the        *)
(* persisted files are the environment.                                    *)
(*                                                                         *)
(* Spec follows whole runs of the scripts.  FnSpec studies single calls    *)
(* of their functions on arguments drawn from sets, OverlapSpec two runs   *)
(* of process_source for one source that overlap in time.                  *)
(***************************************************************************)
EXTENDS Integers, Sequences, FiniteSets, TLC

\* ------------------------------------------------------------------ bounds
NumSources == 2        \* sources configured in main (the scripts list 7 or 8)
MaxRuns == 2           \* batch runs of main that are followed
LongDescription == 2000  \* letters of a long article description

Sources == 1..NumSources
Scripts == {"New_Ex", "MarketAlert", "NewMA"}

Today == 1             \* calendar day of datetime.now() during the runs
Yesterday == Today - 1

\* ------------------------------------------------------------ text helpers
\* Text is a sequence of one-character strings, so that substring search
\* and case folding are computed rather than assumed.
UpperChars == <<"A","B","C","D","E","F","G","H","I","J","K","L","M",
                "N","O","P","Q","R","S","T","U","V","W","X","Y","Z">>
LowerChars == <<"a","b","c","d","e","f","g","h","i","j","k","l","m",
                "n","o","p","q","r","s","t","u","v","w","x","y","z">>

LowerChar(c) ==
    IF \E i \in 1..26 : UpperChars[i] = c
    THEN LowerChars[CHOOSE i \in 1..26 : UpperChars[i] = c]
    ELSE c

\* str.lower()
Lower(t) == [i \in 1..Len(t) |-> LowerChar(t[i])]

\* `needle in hay` for Python strings
Contains(hay, needle) ==
    \E i \in 0..(Len(hay) - Len(needle)) :
        \A j \in 1..Len(needle) : hay[i + j] = needle[j]

EmptyText == << >>

exclude_keywords ==
    << <<"K","R"," ","C","h","o","k","s","e","y">>,
       <<"L","i","l","l","a","d","h","e","r">>,
       <<"m","o","t","i","l","a","l">>,
       <<"I","C","I","C","I"," ","S","e","c","u","r","i","t","i","e","s">>,
       <<"S","h","a","r","e","k","h","a","n">>,
       <<"s","t","r","a","i","g","h","t"," ","s","e","s","s","i","o","n">>,
       <<"A","n","a","n","d"," ","R","a","t","h","i">>,
       <<"E","m","k","a","y">> >>

\* any(keyword.lower() in title_lower or keyword.lower() in desc_lower ...)
MatchesExcluded(title, description) ==
    \E k \in 1..Len(exclude_keywords) :
        \/ Contains(Lower(title), Lower(exclude_keywords[k]))
        \/ Contains(Lower(description), Lower(exclude_keywords[k]))

\* ------------------------------------------------------------------- URLs
\* A link string is kept as the parts urlparse splits it into.  host is
\* scheme and netloc together ("" for a relative link, which is also what
\* `not link.startswith('http')` tests), path the path, params the
\* ";parameters" urlparse cuts off the last path segment, text a link that
\* is not a URL at all but the text of an element.  '' has every part
\* empty.
UrlParams(h, p, pr, q, f) ==
    [host |-> h, path |-> p, params |-> pr, query |-> q, frag |-> f, text |-> EmptyText]
Url(h, p, q, f) == UrlParams(h, p, "", q, f)
TextLink(t) ==
    [host |-> "", path |-> "", params |-> "", query |-> "", frag |-> "", text |-> t]
NoLink == Url("", "", "", "")

\* requests.compat.urljoin(url, link) for a link without scheme and host
urljoin(url, link) == [link EXCEPT !.host = url.host]

\* urlunparse((parsed.scheme, parsed.netloc, parsed.path, '', '', ''))
normalize_url(url) == [url EXCEPT !.params = "", !.query = "", !.frag = ""]

\* ------------------------------------------------------------------ dates
\* A date string is [label, fmt, day].  label: it carries the
\* "Updated On :" prefix.  fmt says which parsers accept it:
\*   "iso"       datetime.isoformat() output, "2024-01-05T10:30:00"
\*   "dmy_text"  "05 Jan 2024 10:30:00"
\*   "dmy_slash" "05/01/2024 10:30", the day written first; day is the
\*               day it means, and dateutil reads the month first
\*   "rfc822"    "Fri, 05 Jan 2024 10:30:00 +0530" (feeds)
\*   "garbage"   prose: no parser accepts it (ValueError)
\*   "overflow"  digits on which dateutil raises OverflowError
\*   "missing"   the record has no pubDate key at all (KeyError)
Date(f, d) == [label |-> FALSE, fmt |-> f, day |-> d]
Labelled(dt) == [dt EXCEPT !.label = TRUE]
NowIso == Date("iso", Today)
NoDate == Date("missing", 0)

\* date_str.replace('Updated On :', '').strip()
StripLabel(dt) == [dt EXCEPT !.label = FALSE]

\* the day dateutil reads from "05/01/2024": 1 May, not 5 January
MonthFirst(day) == day + 100

\* dateutil parser.parse(s) / parser.parse(s, fuzzy=True): the outcome is
\* "ok" with a day, "ValueError" or "OverflowError"; a string that still
\* carries the label parses only in fuzzy mode.
DateutilParse(dt, fuzzy) ==
    IF dt.fmt = "overflow" THEN [res |-> "OverflowError", day |-> 0]
    ELSE IF dt.fmt = "missing" THEN [res |-> "KeyError", day |-> 0]
    ELSE IF dt.fmt = "garbage" \/ (dt.label /\ ~fuzzy) THEN [res |-> "ValueError", day |-> 0]
    ELSE IF dt.fmt = "dmy_slash" THEN [res |-> "ok", day |-> MonthFirst(dt.day)]
    ELSE [res |-> "ok", day |-> dt.day]

\* datetime.datetime.fromisoformat(s)
FromIsoformat(dt) ==
    IF dt.fmt = "missing" THEN [res |-> "KeyError", day |-> 0]
    ELSE IF dt.fmt = "iso" /\ ~dt.label THEN [res |-> "ok", day |-> dt.day]
    ELSE [res |-> "ValueError", day |-> 0]

\* datetime.datetime.strptime against the three explicit formats of
\* MarketAlert.parse_date
StrptimeExplicit(dt) ==
    IF dt.fmt \in {"iso", "dmy_text", "dmy_slash"} /\ ~dt.label
    THEN [res |-> "ok", day |-> dt.day]
    ELSE [res |-> "ValueError", day |-> 0]

\* parse_date of MarketAlert_New_Ex.py: the ISO string of the parsed date,
\* now() on ValueError; any other exception leaves the function.
parse_date(date_str) ==
    LET p == DateutilParse(StripLabel(date_str), TRUE) IN
    IF p.res = "ok" THEN [res |-> "ok", pubDate |-> Date("iso", p.day)]
    ELSE IF p.res = "ValueError" THEN [res |-> "ok", pubDate |-> NowIso]
    ELSE [res |-> p.res, pubDate |-> NoDate]

MarketAlert_parse_date_unstripped(date_str) ==
    LET e == StrptimeExplicit(date_str)
        p == DateutilParse(date_str, TRUE) IN
    IF e.res = "ok" THEN [res |-> "ok", pubDate |-> Date("iso", e.day)]
    ELSE IF p.res = "ok" THEN [res |-> "ok", pubDate |-> Date("iso", p.day)]
    ELSE IF p.res = "ValueError" THEN [res |-> "ok", pubDate |-> NowIso]
    ELSE [res |-> p.res, pubDate |-> NoDate]

\* parse_date of MarketAlert.py: explicit formats first, then the fuzzy
\* parse; the caller formats the result with isoformat().
MarketAlert_parse_date(date_str) ==
    LET s == StripLabel(date_str)
        e == StrptimeExplicit(s)
        p == DateutilParse(s, TRUE) IN
    IF e.res = "ok" THEN [res |-> "ok", pubDate |-> Date("iso", e.day)]
    ELSE IF p.res = "ok" THEN [res |-> "ok", pubDate |-> Date("iso", p.day)]
    ELSE IF p.res = "ValueError" THEN [res |-> "ok", pubDate |-> NowIso]
    ELSE [res |-> p.res, pubDate |-> NoDate]

\* ----------------------------------------------------------------- markup
\* An article node that soup.select(selector) returns is the sequence of
\* its descendant elements in document order.  An element has a tag name,
\* its text, the date string its text reads as, and optionally the href
\* and datetime attributes.
El(tg, txt) ==
    [tag |-> tg, text |-> txt, textDate |-> Date("garbage", 0),
     hasHref |-> FALSE, href |-> NoLink,
     hasDatetime |-> FALSE, datetime |-> NoDate]
A(txt, link) == [El("a", txt) EXCEPT !.hasHref = TRUE, !.href = link]
Time(dt) == [El("time", EmptyText) EXCEPT !.hasDatetime = TRUE, !.datetime = dt]

\* element.find(tag_name): index of the first element with that tag, 0 for None
Find(element, tag_name) ==
    IF \E i \in 1..Len(element) : element[i].tag = tag_name
    THEN CHOOSE i \in 1..Len(element) :
            /\ element[i].tag = tag_name
            /\ \A j \in 1..(i - 1) : element[j].tag # tag_name
    ELSE 0

RECURSIVE dynamic_extract_from(_, _, _, _)
dynamic_extract_from(element, tag_names, attribute_name, k) ==
    IF k > Len(tag_names) THEN NoLink
    ELSE LET t == Find(element, tag_names[k]) IN
         IF t # 0
         THEN IF attribute_name = "href" /\ element[t].hasHref
              THEN element[t].href
              ELSE TextLink(element[t].text)
         ELSE dynamic_extract_from(element, tag_names, attribute_name, k + 1)

\* dynamic_extract of MarketAlert_New_Ex.py and MarketAlert_NL.py.  The
\* value is a string: a text, or a link when the attribute was read.
dynamic_extract(element, tag_names, attribute_name) ==
    dynamic_extract_from(element, tag_names, attribute_name, 1)

RECURSIVE MarketAlert_dynamic_extract_from(_, _, _, _)
MarketAlert_dynamic_extract_from(element, tag_names, attribute_name, k) ==
    IF k > Len(tag_names) THEN NoLink
    ELSE LET t == Find(element, tag_names[k]) IN
         IF t # 0
         THEN IF attribute_name = "href"
              THEN (IF element[t].hasHref THEN element[t].href ELSE NoLink)
              ELSE TextLink(element[t].text)
         ELSE MarketAlert_dynamic_extract_from(element, tag_names, attribute_name, k + 1)

\* dynamic_extract of MarketAlert.py: target.get(attribute_name, '')
MarketAlert_dynamic_extract(element, tag_names, attribute_name) ==
    MarketAlert_dynamic_extract_from(element, tag_names, attribute_name, 1)

\* extract_date: the span's text, overridden by the time element's
\* datetime attribute (None when it has none).  NoDate is None or ''.
extract_date(article) ==
    LET sp == Find(article, "span")
        tm == Find(article, "time") IN
    IF tm # 0
    THEN (IF article[tm].hasDatetime THEN article[tm].datetime ELSE NoDate)
    ELSE IF sp # 0 /\ article[sp].text # EmptyText THEN article[sp].textDate
    ELSE NoDate

TitleTags == <<"h2", "h3", "a", "span">>
LinkTags == <<"a">>
DescTags == <<"p", "span", "div">>

\* One pass of the for loop of scrape_news over a node: the record it
\* appends (keep), the `continue` (skip) or the exception that leaves the
\* loop (raise).
ScrapeOne(url, article) ==
    LET title == dynamic_extract(article, TitleTags, "").text
        link0 == dynamic_extract(article, LinkTags, "href")
        description == dynamic_extract(article, DescTags, "").text
        link == IF link0 # NoLink /\ link0.host = "" THEN urljoin(url, link0) ELSE link0
        date_str == extract_date(article)
        pd == IF date_str # NoDate THEN parse_date(date_str)
              ELSE [res |-> "ok", pubDate |-> NowIso] IN
    IF title = EmptyText \/ description = EmptyText \/ link0 = NoLink
    THEN [res |-> "skip", item |-> <<>>]
    ELSE IF pd.res # "ok" THEN [res |-> "raise", item |-> <<>>]
    ELSE [res |-> "keep",
          item |-> << [title |-> title, link |-> link, description |-> description,
                       pubDate |-> pd.pubDate, guid |-> NoLink, hasGuid |-> FALSE] >>]

\* The same pass in MarketAlert.py: title falls back to the description
\* or 'No title', and the record carries guid = link.
NoTitle == <<"N","o"," ","t","i","t","l","e">>

MarketAlert_ScrapeOne(url, article) ==
    LET title0 == MarketAlert_dynamic_extract(article, TitleTags, "").text
        link0 == MarketAlert_dynamic_extract(article, LinkTags, "href")
        description == MarketAlert_dynamic_extract(article, DescTags, "").text
        title == IF title0 # EmptyText THEN title0
                 ELSE IF description # EmptyText THEN description ELSE NoTitle
        link == IF link0 # NoLink /\ link0.host = "" THEN urljoin(url, link0) ELSE link0
        date_str == extract_date(article)
        pd == IF date_str # NoDate THEN MarketAlert_parse_date(date_str)
              ELSE [res |-> "ok", pubDate |-> NowIso] IN
    IF title = EmptyText \/ description = EmptyText \/ link0 = NoLink
    THEN [res |-> "skip", item |-> <<>>]
    ELSE IF pd.res # "ok" THEN [res |-> "raise", item |-> <<>>]
    ELSE [res |-> "keep",
          item |-> << [title |-> title, link |-> link, description |-> description,
                       pubDate |-> pd.pubDate, guid |-> link, hasGuid |-> TRUE] >>]

RECURSIVE ScrapeLoop(_, _, _, _)
ScrapeLoop(scr, url, articles, k) ==
    IF k > Len(articles) THEN [res |-> "ok", items |-> <<>>]
    ELSE LET one == IF scr = "MarketAlert" THEN MarketAlert_ScrapeOne(url, articles[k])
                    ELSE ScrapeOne(url, articles[k])
             rest == ScrapeLoop(scr, url, articles, k + 1) IN
         IF one.res = "raise" THEN [res |-> "raise", items |-> <<>>]
         ELSE IF rest.res = "raise" THEN rest
         ELSE [res |-> "ok", items |-> one.item \o rest.items]

\* The body of scrape_news for one attempt.  fetch is the outcome of
\* requests.get and raise_for_status: "ok" or "RequestException".  The
\* result is the list returned, or "raise" for an exception that is not
\* a RequestException and so reaches the retry decorator.
scrape_news_once(scr, url, fetch, articles) ==
    IF fetch = "RequestException" THEN [res |-> "ok", items |-> <<>>]
    ELSE ScrapeLoop(scr, url, articles, 1)

\* An entry of a feed, as feedparser gives it, is the sequence of the
\* elements of the item, the link kept in href and the publication date
\* in textDate.

\* '#', the link scrape_rss gives to an entry without one
Placeholder == TextLink(<<"#">>)

\* One pass of the loop of scrape_rss: entry.get with its defaults; the
\* published string is stored as it is, and guid = link.
RssOne(entry) ==
    LET t == Find(entry, "title")
        d == Find(entry, "description")
        p == Find(entry, "published")
        l == Find(entry, "link")
        link == IF l # 0 THEN entry[l].href ELSE Placeholder IN
    [title |-> IF t # 0 THEN entry[t].text ELSE NoTitle,
     link |-> link,
     description |-> IF d # 0 THEN entry[d].text ELSE EmptyText,
     pubDate |-> IF p # 0 THEN entry[p].textDate ELSE NowIso,
     guid |-> link, hasGuid |-> TRUE]

\* scrape_rss: feedparser.parse does not raise on a failed fetch, it
\* returns a feed without entries
scrape_rss(fetch, entries) ==
    IF fetch = "RequestException" THEN [res |-> "ok", items |-> <<>>]
    ELSE [res |-> "ok", items |-> [n \in 1..Len(entries) |-> RssOne(entries[n])]]

\* source.get('is_rss'): of the sources of MarketAlert.py the model keeps
\* the first, a page read with a selector, and feeds after it
is_rss(scr, s) == scr = "MarketAlert" /\ s >= 2

\* what process_source, and main of MarketAlert.py after it, get from the
\* source in one attempt
scrape_once(scr, s, url, fetch, page) ==
    IF is_rss(scr, s) THEN scrape_rss(fetch, page)
    ELSE scrape_news_once(scr, url, fetch, page)

\* -------------------------------------------------------- persisted files
\* The identity-store file: absent, not decodable as JSON ("garbled"), a
\* JSON document that is no array ("scalar": null or a number), or a JSON
\* array of identities ("list").
SentFile(k, ids) == [kind |-> k, ids |-> ids]

\* read_sent_ids: set(json.load(file)); only JSONDecodeError is caught.
read_sent_ids(file) ==
    IF file.kind = "list" THEN [res |-> "ok", ids |-> file.ids]
    ELSE IF file.kind = "scalar" THEN [res |-> "TypeError", ids |-> {}]
    ELSE [res |-> "ok", ids |-> {}]

write_sent_ids_newonly(old_ids, new_ids) == SentFile("list", new_ids)

\* write_sent_ids(path, sent_ids.union(new_ids)): json.dump(list(ids))
write_sent_ids(old_ids, new_ids) == SentFile("list", old_ids \cup new_ids)

\* The archive file: absent, not decodable ("garbled"), a JSON document
\* that is no object ("nonobject"), an object without `items`
\* ("noitems"), or a feed object with its items.  build counts the
\* writes, standing for lastBuildDate.
Archive(k, its, b) == [kind |-> k, items |-> its, build |-> b]

\* What reading one existing item's pubDate does in the Ex script:
\* parser.parse(item['pubDate']) inside `except ValueError`.
ExistingKeep(item) ==
    LET p == DateutilParse(item.pubDate, FALSE) IN
    IF p.res = "ok" THEN (IF p.day = Today THEN "keep" ELSE "drop")
    ELSE IF p.res = "ValueError" THEN "drop"
    ELSE "raise"

\* The same in MarketAlert.py: fromisoformat(item['pubDate']) inside
\* `except json.JSONDecodeError`, which catches neither ValueError nor
\* KeyError.
MarketAlert_ExistingKeep(item) ==
    LET p == FromIsoformat(item.pubDate) IN
    IF p.res = "ok" THEN (IF p.day = Today THEN "keep" ELSE "drop")
    ELSE "raise"

IsToday(item) ==
    LET p == FromIsoformat(item.pubDate) IN p.res = "ok" /\ p.day = Today

RECURSIVE FilterExisting(_, _, _)
FilterExisting(scr, its, k) ==
    IF k > Len(its) THEN [res |-> "ok", items |-> <<>>]
    ELSE LET v == IF scr = "MarketAlert" THEN MarketAlert_ExistingKeep(its[k])
                  ELSE ExistingKeep(its[k])
             rest == FilterExisting(scr, its, k + 1) IN
         IF v = "raise" \/ rest.res = "raise" THEN [res |-> "raise", items |-> <<>>]
         ELSE [res |-> "ok",
               items |-> (IF v = "keep" THEN <<its[k]>> ELSE <<>>) \o rest.items]

\* create_or_update_json_feed of MarketAlert_New_Ex.py
create_or_update_json_feed(file, items) ==
    LET ex == IF file.kind = "feed" THEN FilterExisting("New_Ex", file.items, 1)
              ELSE [res |-> "ok", items |-> <<>>]
        new_items == SelectSeq(items, IsToday) IN
    IF ex.res = "raise" THEN [res |-> "raise", file |-> file]
    ELSE [res |-> "ok",
          file |-> Archive("feed", ex.items \o new_items, file.build + 1)]

\* create_or_update_json_feed of MarketAlert.py: existing_data.get on a
\* non-object raises AttributeError; new_items = items, unfiltered.
MarketAlert_create_or_update_json_feed(file, items) ==
    LET ex == IF file.kind = "feed" THEN FilterExisting("MarketAlert", file.items, 1)
              ELSE IF file.kind = "nonobject" THEN [res |-> "raise", items |-> <<>>]
              ELSE [res |-> "ok", items |-> <<>>] IN
    IF ex.res = "raise" THEN [res |-> "raise", file |-> file]
    ELSE [res |-> "ok",
          file |-> Archive("feed", ex.items \o items, file.build + 1)]

\* ------------------------------------------------------------ environment
\* Texts used by the pages below.
TxtNews == <<"N","e","w","s">>
TxtBody == <<"B","o","d","y">>
TxtMore == <<"M","o","r","e">>
TxtEmkay == <<"E","M","K","A","Y"," ","b","u","y">>

\* An article node with a headline, a relative link and a paragraph.
Story(title, path, query) ==
    << El("h2", title), A(TxtMore, Url("", path, query, "")), El("p", TxtBody) >>

\* Entries of a feed: with link and publication date, and without both
Entry(title, link, published) ==
    << El("title", title), [El("link", EmptyText) EXCEPT !.hasHref = TRUE, !.href = link],
       El("description", TxtBody), [El("published", EmptyText) EXCEPT !.textDate = published] >>
BareEntry(title) == << El("title", title), El("description", TxtBody) >>

\* The pages a selector-based source can serve.
PageEmpty == << >>

\* five records: two without a usable link, one dated yesterday, one
\* naming an excluded broker, one plain
PageMixed ==
    << << El("h2", TxtNews), El("p", TxtBody) >>,
       << El("h2", TxtNews), A(TxtMore, NoLink), El("p", TxtBody) >>,
       Story(TxtNews, "old", "") \o << Time(Date("iso", Yesterday)) >>,
       Story(TxtEmkay, "brk", ""),
       Story(TxtNews, "a", "utm1") >>

\* the same story listed twice with different tracking parameters
PageDup ==
    << Story(TxtNews, "a", "utm1"), Story(TxtNews, "a", "utm2"), Story(TxtNews, "b", "") >>

\* a story whose date makes dateutil raise OverflowError
PageOverflow ==
    << Story(TxtNews, "c", "") \o << Time(Date("overflow", 0)) >> >>

\* a feed: one entry with a link, two without
FeedPage ==
    << Entry(TxtNews, Url("et", "r", "", ""), Date("rfc822", Today)),
       BareEntry(TxtNews), BareEntry(TxtMore) >>

\* url of source s (its host stands for scheme and netloc)
SourceHosts == <<"mc", "et", "bs", "bt">>
SourceUrl(s) == Url(SourceHosts[s], "", "", "")

\* what the chat endpoint answers to a POST: success, an HTTP error
\* status, 429, or no answer at all (RequestException)
Outcomes == {"ok", "http_error", "rate_limited", "network_error"}

\* the Retry-After header of a 429 answer: absent, delay-seconds, or an
\* HTTP-date
RetryAfterHeaders == {"absent", "seconds", "http_date"}

\* an answer of the endpoint, with the header the code reads from it
Deliveries ==
    { [status |-> o, header |-> "absent"] : o \in Outcomes }
        \cup { [status |-> "rate_limited", header |-> h] : h \in RetryAfterHeaders }

\* int(response.headers.get('Retry-After', 60)): the wait in seconds
RetryAfter(header) ==
    IF header = "absent" THEN [res |-> "ok", wait |-> 60]
    ELSE IF header = "seconds" THEN [res |-> "ok", wait |-> 30]
    ELSE [res |-> "ValueError", wait |-> 0]

\* send_to_telegram of MarketAlert_New_Ex.py and MarketAlert.py: HTTPError
\* and RequestException are handled; the 429 branch converts the header
\* inside the handler, where nothing catches its ValueError
send_to_telegram(d) ==
    IF d.status = "rate_limited" THEN RetryAfter(d.header).res ELSE "ok"

TodayItem(path) ==
    [title |-> TxtNews, link |-> Url("mc", path, "", ""), description |-> TxtBody,
     pubDate |-> Date("iso", Today), guid |-> NoLink, hasGuid |-> FALSE]
DatedItem(path, dt) == [TodayItem(path) EXCEPT !.pubDate = dt]

\* Archive contents found before the first run
NoArchive == Archive("absent", <<>>, 0)
GarbledArchive == Archive("garbled", <<>>, 0)
\* two items of today and three of yesterday
FeedMixed ==
    Archive("feed", << TodayItem("x"), DatedItem("y1", Date("iso", Yesterday)),
                       TodayItem("w"), DatedItem("y2", Date("iso", Yesterday)),
                       DatedItem("y3", Date("iso", Yesterday)) >>, 0)
FeedGarbage == Archive("feed", << TodayItem("x"), DatedItem("g", Date("garbage", 0)) >>, 0)
FeedMissing == Archive("feed", << TodayItem("x"), DatedItem("m", NoDate) >>, 0)

\* What source s serves and what its two files hold before the first
\* run: a page paired with file contents, well-formed and not.
Worlds(s) ==
    LET h == SourceHosts[s]
        seen == SentFile("list", {Url(h, "a", "", ""), Url(h, "a", "utm1", "")}) IN
    { [page |-> PageMixed,    sent |-> SentFile("absent", {}),  archive |-> NoArchive],
      [page |-> PageMixed,    sent |-> seen,                    archive |-> FeedMixed],
      [page |-> PageMixed,    sent |-> SentFile("garbled", {}), archive |-> GarbledArchive],
      [page |-> PageMixed,    sent |-> SentFile("absent", {}),  archive |-> Archive("nonobject", <<>>, 0)],
      [page |-> PageMixed,    sent |-> SentFile("absent", {}),  archive |-> FeedMissing],
      [page |-> PageDup,      sent |-> SentFile("garbled", {}), archive |-> FeedMixed],
      [page |-> PageDup,      sent |-> seen,                    archive |-> FeedGarbage],
      [page |-> PageDup,      sent |-> SentFile("scalar", {}),  archive |-> NoArchive],
      [page |-> PageDup,      sent |-> SentFile("absent", {}),  archive |-> Archive("noitems", <<>>, 0)],
      [page |-> PageOverflow, sent |-> SentFile("absent", {}),  archive |-> NoArchive],
      [page |-> PageEmpty,    sent |-> seen,                    archive |-> FeedMixed] }

\* What a feed source serves and what its files hold before the first run
RssWorlds(s) ==
    { [page |-> FeedPage,  sent |-> SentFile("absent", {}), archive |-> NoArchive],
      [page |-> FeedPage,  sent |-> SentFile("list", {Placeholder}), archive |-> FeedMixed],
      [page |-> PageEmpty, sent |-> SentFile("absent", {}), archive |-> NoArchive] }

\* ------------------------------------------------------------------ NewMA
\* SENT_FILE and CACHE_FILE of NewMA.py are JSON arrays: [kind, list].
JsonFile(k, l) == [kind |-> k, list |-> l]

\* load_json_file: json.load with no handler; [] when the file is absent.
\* A document that is no array makes the caller's `in` or append raise.
load_json_file(file) ==
    IF file.kind = "absent" THEN [res |-> "ok", list |-> <<>>]
    ELSE IF file.kind = "list" THEN [res |-> "ok", list |-> file.list]
    ELSE IF file.kind = "garbled" THEN [res |-> "JSONDecodeError", list |-> <<>>]
    ELSE [res |-> "TypeError", list |-> <<>>]

\* save_json_file
save_json_file(data) == JsonFile("list", data)

InList(x, l) == \E i \in 1..Len(l) : l[i] = x

\* already_sent(title): a record [res, sent]
already_sent(file, title) ==
    LET ld == load_json_file(file) IN
    [res |-> ld.res, sent |-> ld.res = "ok" /\ InList(title, ld.list)]

\* mark_sent(title) and add_to_cache(article): load, append, save
mark_sent(file, title) ==
    LET ld == load_json_file(file) IN
    [res |-> ld.res,
     file |-> IF ld.res = "ok" THEN save_json_file(Append(ld.list, title)) ELSE file]

add_to_cache(file, article) ==
    LET ld == load_json_file(file) IN
    [res |-> ld.res,
     file |-> IF ld.res = "ok" THEN save_json_file(Append(ld.list, article)) ELSE file]

max_workers == 5

\* An article of NewMA.py.  image: article.get("image") is set.  more:
\* how many letters the description goes on after its first words.
LongNews(title, path, img, more) ==
    [title |-> title, description |-> TxtBody, more |-> more,
     url |-> Url("nm", path, "", ""), image |-> img, source_name |-> "NewsAPI"]
News(title, path, img) == LongNews(title, path, img, 0)

\* the fetchers of NewMA.py, by the source_name they give their articles
Fetchers == {"NewsAPI", "GNews", "NewsData", "RSS", "Scraped"}
From(name, article) == [article EXCEPT !.source_name = name]
TxtOther == <<"O","t","h","e","r">>

\* What the fetchers of NewMA.py return together (all_news)
NewsLists ==
    { << >>,
      << News(TxtNews, "a", TRUE), News(TxtOther, "b", FALSE) >>,
      << News(TxtNews, "a", FALSE), From("GNews", News(TxtNews, "c", FALSE)),
         From("RSS", News(TxtOther, "b", TRUE)) >>,
      << LongNews(TxtNews, "d", TRUE, LongDescription),
         LongNews(TxtOther, "e", FALSE, LongDescription + LongDescription + LongDescription) >> }

NewMASentInits ==
    { JsonFile("absent", <<>>), JsonFile("garbled", <<>>), JsonFile("scalar", <<>>),
      JsonFile("list", <<TxtOther>>) }
NewMACacheInits == { JsonFile("absent", <<>>), JsonFile("garbled", <<>>) }

\* --------------------------------------------------------------- payloads
WATERMARK == <<"@","S","t","o","c","k","_","M","a","r","k","e","t","_",
               "N","e","w","s","_","B","u","z","z">>

\* special_chars of escape_markdown_v2 (its backquote is not written here:
\* no text of the model holds one)
special_chars ==
    {"_", "*", "[", "]", "(", ")", "~", ">", "#", "+", "-", "=", "|",
     "{", "}", ".", "!"}

\* escape_markdown_v2: a backslash before every special character
RECURSIVE escape_markdown_v2(_)
escape_markdown_v2(text) ==
    IF text = << >> THEN << >>
    ELSE (IF Head(text) \in special_chars THEN << "\\", Head(text) >> ELSE << Head(text) >>)
             \o escape_markdown_v2(Tail(text))

\* A payload string is kept as its length, whether it ends with
\* WATERMARK, and how many times it holds WATERMARK whole.
Text(n) == [len |-> n, watermark |-> FALSE, marks |-> 0]
WithWatermark(p) == [len |-> p.len + Len(WATERMARK), watermark |-> TRUE, marks |-> p.marks + 1]

\* s[:n]: a cut takes the end of the string with it
Slice(p, n) ==
    IF p.len <= n THEN p
    ELSE [len |-> n, watermark |-> FALSE,
          marks |-> IF p.watermark THEN p.marks - 1 ELSE p.marks]

CaptionLimit == 1024
TextLimit == 4096

\* caption = f"*{title}*\n\n{desc}\n\n{WATERMARK}" of send_telegram
caption(article) ==
    WithWatermark(Text(1 + Len(escape_markdown_v2(article.title)) + 1 + 2
                         + Len(escape_markdown_v2(article.description)) + article.more + 2))

\* plain_caption = f"{title}\n\n{description}\n\n{WATERMARK}"
plain_caption(article) ==
    WithWatermark(Text(Len(article.title) + 2 + Len(article.description) + article.more + 2))

\* what the endpoint answers to a POST of NewMA.py: as Outcomes, with
\* status 400 told apart from the other error statuses
NewMA_Outcomes == Outcomes \cup {"bad_request"}

\* the answers to the POSTs of one send_telegram call: one answer, or a
\* 400 and the answer to the second POST
NewMA_Deliveries ==
    { << o >> : o \in NewMA_Outcomes \ {"bad_request"} }
        \cup { << "bad_request", o >> : o \in NewMA_Outcomes }

\* send_telegram of NewMA.py: the POSTs it makes, given the answers.
\* url_api is chosen once, so the second POST goes to the same method.
send_telegram(article, answers) ==
    LET method == IF article.image THEN "sendPhoto" ELSE "sendMessage"
        limit == IF article.image THEN CaptionLimit ELSE TextLimit
        first == [method |-> method, payload |-> Slice(caption(article), limit),
                  status |-> answers[1]] IN
    IF answers[1] = "bad_request"
    THEN << first, [method |-> method, payload |-> Slice(plain_caption(article), limit),
                    status |-> answers[2]] >>
    ELSE << first >>

\* characters of a link
UrlLen(u) ==
    Len(u.host) + Len(u.path) + Len(u.params) + Len(u.query) + Len(u.frag) + Len(u.text)

\* message of process_source: f"*{title}*\n\n{description}\n\n[Read more]({link})"
\* in MarketAlert_New_Ex.py, f"*{title}*\n\n{description}\n\n{link}" in
\* MarketAlert.py
message(scr, item) ==
    Text(1 + Len(item.title) + 1 + 2 + Len(item.description) + 2
           + (IF scr = "MarketAlert" THEN 0 ELSE 14) + UrlLen(item.link))

\* the end-of-run message of main: MarketAlert.py writes the watermark
\* into it, MarketAlert_New_Ex.py does not
end_message(scr) ==
    IF scr = "MarketAlert" THEN WithWatermark(Text(45)) ELSE Text(40)

\* the text send_to_telegram posts: MarketAlert.py appends "\n" and the
\* watermark to the message, MarketAlert_New_Ex.py posts it as it is
Post(scr, msg) ==
    IF scr = "MarketAlert"
    THEN WithWatermark([len |-> msg.len + 1, watermark |-> FALSE, marks |-> msg.marks])
    ELSE msg

\* no message posted yet
NoPost == Text(0)

\* seconds the server of a 429 answer asks the client to wait
AdvisedWait(status, header) ==
    IF status = "rate_limited" /\ header # "absent" THEN 30 ELSE 0

\* seconds send_to_telegram sleeps in its 429 branch
RateLimitSleep(d) ==
    IF d.status = "rate_limited" /\ RetryAfter(d.header).res = "ok"
    THEN RetryAfter(d.header).wait ELSE 0

\* ------------------------------------------------------------ file names
\* the sources a script is configured with
ConfiguredSources(scr) == IF scr = "NewMA" THEN Fetchers ELSE Sources

\* source['sent_ids_file'] of the main scripts, SENT_FILE of NewMA.py
sent_ids_file(scr, s) ==
    IF scr = "NewMA" THEN << "sent_titles.json" >> ELSE << SourceHosts[s], "sent_ids.json" >>

\* source['output_file'] of the main scripts, CACHE_FILE of NewMA.py
output_file(scr, s) ==
    IF scr = "NewMA" THEN << "daily_news.json" >> ELSE << SourceHosts[s], "rss_feed.json" >>

\* ------------------------------------------------------------------- state
VARIABLES
    script,        \* which script of the repository runs
    web,           \* web[s]: what source s serves
    sentFile,      \* sentFile[s]: identity-store file of source s
    archive,       \* archive[s]: archive file of source s
    run,           \* runs of main started so far
    credsOk,       \* the credentials of the current run are set
    pc,            \* position of main
    order,         \* sources after random.shuffle
    idx,           \* position in order
    sent_ids,      \* process_source: the set read_sent_ids returned
    to_send,       \* process_source: new_items_to_send
    k,             \* index of the next item of to_send to deliver
    attempt,       \* attempt number of the retrying scrape_news call
    sendLog,       \* every article delivery call made, in order
    statusMsgs,    \* end-of-run messages sent through send_to_telegram
    lastOutcome,   \* outcome of the latest delivery call
    firstFail,     \* index in to_send of the first failed delivery, 0 if none
    snapSent,      \* sentFile as it was when the current run started
    snapArchive,   \* archive as it was when the current run started
    fetched,       \* sources whose page process_source fetched and parsed in this run
    processed,     \* sources for which process_source returned in this run
    err,           \* the call whose exception ended the run, "none" if none
    news,          \* NewMA: all_news, what the fetchers return
    nmSent,        \* NewMA: SENT_FILE
    nmCache,       \* NewMA: CACHE_FILE
    pending,       \* NewMA: indices of to_send submitted to the pool, not yet sent
    holdoff,       \* seconds of a server-advised wait that have not elapsed
    reads,         \* reads[s]: requests made to source s in this run
    lastPost,      \* payload of the latest send_to_telegram call
    call,          \* the function call under study, [fn |-> "none"] in a run
    ret,           \* what that call returned, NoRet before it is made
    procs          \* procs[p]: the locals of overlapping run p of process_source

vars == << script, web, sentFile, archive, run, credsOk, pc, order, idx, sent_ids,
           to_send, k, attempt, sendLog, statusMsgs, lastOutcome, firstFail,
           snapSent, snapArchive, fetched, processed, err,
           news, nmSent, nmCache, pending, holdoff, reads, lastPost, call, ret, procs >>

mainVars == << web, sentFile, archive, order, idx, sent_ids, attempt,
               statusMsgs, firstFail, snapSent, snapArchive, fetched, processed,
               reads, lastPost >>
nmVars == << news, nmSent, nmCache, pending >>
fnVars == << call, ret, procs >>

stop_after_attempt == 3

Perms == { p \in [Sources -> Sources] : \A a, b \in Sources : a # b => p[a] # p[b] }

src == order[idx]

\* the identity process_source tests against sent_ids
Identity(scr, item) ==
    IF scr = "MarketAlert" THEN (IF item.hasGuid THEN item.guid ELSE item.link)
    ELSE normalize_url(item.link)

NotExcluded(item) == ~MatchesExcluded(item.title, item.description)

\* process_source of MarketAlert_New_Ex.py, from the scraped items to
\* new_items_to_send
SelectNew(items, ids) ==
    LET new_items == SelectSeq(items, IsToday)
        filtered_items == SelectSeq(new_items, NotExcluded)
        Fresh(item) == normalize_url(item.link) \notin ids IN
    SelectSeq(filtered_items, Fresh)

\* the same in MarketAlert.py: date and keyword filters are disabled
MarketAlert_SelectNew(items, ids) ==
    LET Fresh(item) == Identity("MarketAlert", item) \notin ids IN
    SelectSeq(items, Fresh)

IdsOf(scr, items) == { Identity(scr, items[i]) : i \in 1..Len(items) }

\* two invocations of the script whose process_source calls for one
\* source overlap (two cron jobs, or a manual run during a scheduled one)
Procs == {1, 2}
NotStarted ==
    [pc |-> "idle", sent_ids |-> {}, to_send |-> << >>, k |-> 1, overlap |-> FALSE]

DefaultWorld(s) ==
    [page |-> PageEmpty, sent |-> SentFile("absent", {}), archive |-> NoArchive]

MainInit ==
    /\ script \in Scripts
    /\ \E w \in [Sources -> UNION { Worlds(s) \cup RssWorlds(s) \cup {DefaultWorld(s)} :
                                      s \in Sources }] :
          /\ \A s \in Sources :
                IF script = "NewMA" THEN w[s] = DefaultWorld(s)
                ELSE IF is_rss(script, s) THEN w[s] \in RssWorlds(s)
                ELSE w[s] \in Worlds(s)
          /\ web = [s \in Sources |-> w[s].page]
          /\ sentFile = [s \in Sources |-> w[s].sent]
          /\ archive = [s \in Sources |-> w[s].archive]
    /\ IF script = "NewMA"
       THEN /\ news \in NewsLists
            /\ nmSent \in NewMASentInits
            /\ nmCache \in NewMACacheInits
       ELSE /\ news = << >>
            /\ nmSent = JsonFile("absent", <<>>)
            /\ nmCache = JsonFile("absent", <<>>)
    /\ pending = {}
    /\ run = 0
    /\ credsOk = TRUE
    /\ pc = "idle"
    /\ order = [s \in Sources |-> s]
    /\ idx = 1
    /\ sent_ids = {}
    /\ to_send = << >>
    /\ k = 1
    /\ attempt = 1
    /\ sendLog = << >>
    /\ statusMsgs = 0
    /\ lastOutcome = "none"
    /\ firstFail = 0
    /\ snapSent = sentFile
    /\ snapArchive = archive
    /\ fetched = {}
    /\ processed = {}
    /\ err = "none"
    /\ holdoff = 0
    /\ reads = [s \in Sources |-> 0]
    /\ lastPost = NoPost
    /\ procs = [p \in Procs |-> NotStarted]

\* a run of the scripts: no function call is under study
NoCall == [fn |-> "none"]
NoRet == [res |-> "none"]

Init == MainInit /\ call = NoCall /\ ret = NoRet

\* where the loop of main goes after order[idx]
NextSourcePc == IF idx < NumSources THEN "read" ELSE "finish"
NextSourceIdx == IF idx < NumSources THEN idx + 1 ELSE idx

\* where main goes when process_source returns for order[idx]: in
\* MarketAlert.py to the second scrape, which counts the articles
ReturnPc == IF script = "MarketAlert" THEN "recount" ELSE NextSourcePc
ReturnIdx == IF script = "MarketAlert" THEN idx ELSE NextSourceIdx

Dispatch_always(new_items_to_send) == TRUE

\* `if new_items_to_send:` of process_source
Dispatch(new_items_to_send) == new_items_to_send # << >>

\* validate_env_vars / main up to the loop: credentials, shuffle
StartRun ==
    /\ script # "NewMA"
    /\ pc \in {"idle", "done", "aborted"}
    /\ run < MaxRuns
    /\ run' = run + 1
    /\ snapSent' = sentFile
    /\ snapArchive' = archive
    /\ sent_ids' = {}
    /\ to_send' = << >>
    /\ k' = 1
    /\ attempt' = 1
    /\ idx' = 1
    /\ firstFail' = 0
    /\ lastOutcome' = "none"
    /\ fetched' = {}
    /\ processed' = {}
    /\ err' = "none"
    /\ \E ok \in BOOLEAN, p \in Perms :
          /\ credsOk' = ok
          /\ order' = (IF ok THEN p ELSE order)
          /\ pc' = (IF ok THEN "read" ELSE "done")
    /\ holdoff' = 0
    /\ reads' = [s \in Sources |-> 0]
    /\ lastPost' = NoPost
    /\ UNCHANGED << nmVars, fnVars >>
    /\ UNCHANGED << script, web, sentFile, archive, sendLog, statusMsgs >>

\* process_source: read_sent_ids
ReadSentIds ==
    /\ pc = "read"
    /\ LET r == read_sent_ids(sentFile[src]) IN
          /\ pc' = (IF r.res = "ok" THEN "scrape" ELSE "aborted")
          /\ err' = (IF r.res = "ok" THEN err ELSE "read_sent_ids")
          /\ sent_ids' = r.ids
    /\ to_send' = << >>
    /\ k' = 1
    /\ attempt' = 1
    /\ firstFail' = 0
    /\ UNCHANGED << nmVars, fnVars, holdoff >>
    /\ UNCHANGED << script, web, sentFile, archive, run, credsOk, order, idx,
                    sendLog, statusMsgs, lastOutcome, snapSent, snapArchive,
                    fetched, processed, reads, lastPost >>

\* process_source: one attempt of the retried scrape_news, then the
\* filters that give new_items_to_send.  An exception other than
\* RequestException is retried by the decorator; after the last attempt
\* RetryError leaves process_source and main.
ScrapeNews ==
    /\ pc = "scrape"
    /\ \E fetch \in {"ok", "RequestException"} :
          LET r == scrape_once(script, src, SourceUrl(src), fetch, web[src])
              sel == IF script = "MarketAlert"
                     THEN MarketAlert_SelectNew(r.items, sent_ids)
                     ELSE SelectNew(r.items, sent_ids) IN
          IF r.res = "raise"
          THEN /\ pc' = (IF attempt < stop_after_attempt THEN "scrape" ELSE "aborted")
               /\ err' = (IF attempt < stop_after_attempt THEN err ELSE "scrape_news")
               /\ attempt' = (IF attempt < stop_after_attempt THEN attempt + 1 ELSE attempt)
               /\ UNCHANGED << to_send, idx, fetched, processed >>
          ELSE /\ to_send' = sel
               /\ attempt' = attempt
               /\ err' = err
               /\ fetched' = (IF fetch = "ok" THEN fetched \cup {src} ELSE fetched)
               /\ IF r.items # << >> /\ Dispatch(sel)
                  THEN /\ pc' = (IF sel # << >> THEN "send" ELSE "archive")
                       /\ UNCHANGED << idx, processed >>
                  ELSE /\ pc' = ReturnPc
                       /\ idx' = ReturnIdx
                       /\ processed' = processed \cup {src}
    /\ k' = 1
    /\ reads' = [reads EXCEPT ![src] = @ + 1]
    /\ UNCHANGED << nmVars, fnVars, holdoff >>
    /\ UNCHANGED << script, web, sentFile, archive, run, credsOk, order, sent_ids,
                    sendLog, statusMsgs, lastOutcome, firstFail, snapSent, snapArchive,
                    lastPost >>

\* process_source: send_to_telegram for the next item; the loop goes on
\* when the call returns, and an exception of the call leaves
\* process_source and main
SendToTelegram ==
    /\ pc = "send"
    /\ \E d \in Deliveries :
          /\ lastOutcome' = d.status
          /\ holdoff' = (IF AdvisedWait(d.status, d.header) > RateLimitSleep(d)
                         THEN AdvisedWait(d.status, d.header) - RateLimitSleep(d) ELSE 0)
          /\ firstFail' = (IF firstFail = 0 /\ d.status # "ok" THEN k ELSE firstFail)
          /\ IF send_to_telegram(d) = "ok"
             THEN /\ k' = k + 1
                  /\ pc' = (IF k < Len(to_send) THEN "send" ELSE "archive")
                  /\ err' = err
             ELSE /\ k' = k
                  /\ pc' = "aborted"
                  /\ err' = "send_to_telegram"
    /\ sendLog' = Append(sendLog, [run |-> run, source |-> src,
                                   id |-> Identity(script, to_send[k]),
                                   item |-> to_send[k], pos |-> k])
    /\ lastPost' = Post(script, message(script, to_send[k]))
    /\ UNCHANGED << nmVars, fnVars >>
    /\ UNCHANGED << script, web, sentFile, archive, run, credsOk, order, idx, sent_ids,
                    to_send, attempt, statusMsgs, snapSent, snapArchive,
                    fetched, processed, reads >>

\* process_source: create_or_update_json_feed(new_items_to_send, ...)
UpdateFeed ==
    /\ pc = "archive"
    /\ LET r == IF script = "MarketAlert"
                THEN MarketAlert_create_or_update_json_feed(archive[src], to_send)
                ELSE create_or_update_json_feed(archive[src], to_send) IN
          /\ archive' = [archive EXCEPT ![src] = r.file]
          /\ pc' = (IF r.res = "ok" THEN "commit" ELSE "aborted")
          /\ err' = (IF r.res = "ok" THEN err ELSE "create_or_update_json_feed")
    /\ UNCHANGED << nmVars, fnVars, holdoff >>
    /\ UNCHANGED << script, web, sentFile, run, credsOk, order, idx, sent_ids, to_send,
                    k, attempt, sendLog, statusMsgs, lastOutcome, firstFail,
                    snapSent, snapArchive, fetched, processed, reads, lastPost >>

\* process_source: write_sent_ids(path, sent_ids.union(new_ids)), and
\* the return to main's loop
WriteSentIds ==
    /\ pc = "commit"
    /\ sentFile' = [sentFile EXCEPT ![src] = write_sent_ids(sent_ids, IdsOf(script, to_send))]
    /\ pc' = ReturnPc
    /\ idx' = ReturnIdx
    /\ processed' = processed \cup {src}
    /\ UNCHANGED << nmVars, fnVars, holdoff >>
    /\ UNCHANGED << script, web, archive, run, credsOk, order, sent_ids, to_send,
                    k, attempt, sendLog, statusMsgs, lastOutcome, firstFail,
                    snapSent, snapArchive, fetched, err, reads, lastPost >>

\* main of MarketAlert.py after process_source: the source is scraped a
\* second time and the length of the result added to total_articles
Recount ==
    /\ pc = "recount"
    /\ \E fetch \in {"ok", "RequestException"} :
          LET r == scrape_once(script, src, SourceUrl(src), fetch, web[src]) IN
          /\ pc' = (IF r.res = "raise" THEN "aborted" ELSE NextSourcePc)
          /\ err' = (IF r.res = "raise" THEN "scrape_news" ELSE err)
          /\ idx' = (IF r.res = "raise" THEN idx ELSE NextSourceIdx)
          /\ reads' = [reads EXCEPT ![src] = @ + (IF r.res = "raise" THEN stop_after_attempt ELSE 1)]
    /\ UNCHANGED << nmVars, fnVars, holdoff >>
    /\ UNCHANGED << script, web, sentFile, archive, run, credsOk, order, sent_ids, to_send,
                    k, attempt, sendLog, statusMsgs, lastOutcome, firstFail,
                    snapSent, snapArchive, fetched, processed, lastPost >>

\* main after the loop: the end-of-run message
Finish ==
    /\ pc = "finish"
    /\ \E d \in Deliveries :
          /\ lastOutcome' = d.status
          /\ holdoff' = (IF AdvisedWait(d.status, d.header) > RateLimitSleep(d)
                         THEN AdvisedWait(d.status, d.header) - RateLimitSleep(d) ELSE 0)
          /\ pc' = (IF send_to_telegram(d) = "ok" THEN "done" ELSE "aborted")
          /\ err' = (IF send_to_telegram(d) = "ok" THEN err ELSE "send_to_telegram")
    /\ statusMsgs' = statusMsgs + 1
    /\ lastPost' = Post(script, end_message(script))
    /\ UNCHANGED << nmVars, fnVars >>
    /\ UNCHANGED << script, web, sentFile, archive, run, credsOk, order, idx, sent_ids,
                    to_send, k, attempt, sendLog, firstFail, snapSent, snapArchive,
                    fetched, processed, reads >>

\* NewMA __main__: the fetchers, then send_articles_directly when they
\* returned anything
NewMA_Start ==
    /\ script = "NewMA"
    /\ pc \in {"idle", "done", "aborted"}
    /\ run < MaxRuns
    /\ run' = run + 1
    /\ pc' = (IF news = << >> THEN "done" ELSE "claim")
    /\ to_send' = << >>
    /\ k' = 1
    /\ pending' = {}
    /\ err' = "none"
    /\ lastOutcome' = "none"
    /\ \E ok \in BOOLEAN : credsOk' = ok
    /\ holdoff' = 0
    /\ UNCHANGED << mainVars, fnVars >>
    /\ UNCHANGED << script, sendLog, news, nmSent, nmCache >>

\* send_articles_directly: one pass of the first loop over articles[k]:
\* already_sent, then to_send.append, mark_sent, add_to_cache
NewMA_Claim ==
    /\ pc = "claim"
    /\ LET art == news[k]
           seen == already_sent(nmSent, art.title)
           ms == mark_sent(nmSent, art.title)
           ac == add_to_cache(nmCache, art)
           last == k = Len(news) IN
       IF seen.res # "ok"
       THEN /\ pc' = "aborted"
            /\ err' = "load_json_file"
            /\ UNCHANGED << to_send, nmSent, nmCache, k, pending >>
       ELSE IF seen.sent
       THEN /\ pc' = (IF ~last THEN "claim" ELSE IF to_send = << >> THEN "done" ELSE "pool")
            /\ pending' = (IF last THEN 1..Len(to_send) ELSE pending)
            /\ k' = k + 1
            /\ UNCHANGED << to_send, nmSent, nmCache, err >>
       ELSE /\ to_send' = Append(to_send, art)
            /\ nmSent' = ms.file
            /\ nmCache' = ac.file
            /\ IF ac.res # "ok"
               THEN /\ pc' = "aborted"
                    /\ err' = "add_to_cache"
                    /\ UNCHANGED << k, pending >>
               ELSE /\ pc' = (IF last THEN "pool" ELSE "claim")
                    /\ pending' = (IF last THEN 1..Len(to_send') ELSE pending)
                    /\ k' = k + 1
                    /\ err' = err
    /\ UNCHANGED << mainVars, fnVars, credsOk, holdoff >>
    /\ UNCHANGED << script, run, sendLog, lastOutcome, news >>

\* send_articles_directly: a pool worker runs send_telegram for a
\* submitted article; at most max_workers tasks are running, taken in
\* submission order
NewMA_Send ==
    /\ pc = "pool"
    /\ \E i \in pending, answers \in NewMA_Deliveries :
          LET posts == send_telegram(to_send[i], answers)
              last == posts[Len(posts)].status IN
          /\ Cardinality({ j \in pending : j < i }) < max_workers
          /\ sendLog' = Append(sendLog, [run |-> run, source |-> 0,
                                         id |-> TextLink(to_send[i].title),
                                         item |-> to_send[i], pos |-> i,
                                         posts |-> posts])
          /\ lastOutcome' = last
          /\ holdoff' = AdvisedWait(last, "seconds")
          /\ pending' = pending \ {i}
          /\ pc' = (IF pending = {i} THEN "done" ELSE "pool")
    /\ UNCHANGED << mainVars, fnVars, credsOk >>
    /\ UNCHANGED << script, run, to_send, k, err, news, nmSent, nmCache >>

Next ==
    \/ StartRun
    \/ ReadSentIds
    \/ ScrapeNews
    \/ SendToTelegram
    \/ UpdateFeed
    \/ WriteSentIds
    \/ Recount
    \/ Finish
    \/ NewMA_Start
    \/ NewMA_Claim
    \/ NewMA_Send

Spec == Init /\ [][Next]_vars

\* ------------------------------------------------- single function calls
\* A second specification studies one call of a function of the scripts
\* on an argument drawn from a set, outside any run.

\* links as urlparse splits them
Links ==
    { UrlParams(h, p, pr, q, f) :
        h \in {"mc", "et"}, p \in {"", "a", "b"}, pr \in {"", "v1"},
        q \in {"", "utm1", "utm2"}, f \in {"", "top"} }

\* article nodes: an optional heading, an optional anchor (with or
\* without href and text) and an optional paragraph
Articles ==
    { h \o l \o d :
        h \in { << >>, << El("h2", TxtNews) >>, << El("h2", EmptyText) >> },
        l \in { << >>, << A(EmptyText, Url("", "x", "", "")) >>,
                << A(TxtMore, Url("mc", "x", "", "")) >>,
                << A(EmptyText, NoLink) >>, << El("a", TxtMore) >> },
        d \in { << >>, << El("p", TxtBody) >>, << El("p", EmptyText) >> } }

\* date strings without the "Updated On :" label: each format on two
\* days, prose, and digits that overflow
DateStrings ==
    { Date(f, d) : f \in {"iso", "dmy_text", "dmy_slash", "rfc822"}, d \in {Yesterday, Today} }
        \cup { Date("garbage", 0), Date("overflow", 0) }

FnCalls ==
    { [fn |-> "normalize_url", a |-> a, b |-> b] : a \in Links, b \in Links }
        \cup { [fn |-> "parse_date", scr |-> s, date |-> d] :
                  s \in {"New_Ex", "MarketAlert"}, d \in DateStrings }
        \cup { [fn |-> "dynamic_extract", scr |-> s, element |-> n, tag_names |-> t,
                 attribute_name |-> a] :
                  s \in {"New_Ex", "MarketAlert"}, n \in Articles,
                  t \in {TitleTags, LinkTags, DescTags}, a \in {"", "href"} }
        \cup { [fn |-> "scrape_news", scr |-> s, article |-> n] :
                  s \in {"New_Ex", "MarketAlert"}, n \in Articles }

FnInit ==
    /\ MainInit
    /\ script = "NewMA"
    /\ news = << >>
    /\ nmSent = JsonFile("absent", << >>)
    /\ nmCache = JsonFile("absent", << >>)
    /\ call \in FnCalls
    /\ ret = NoRet

\* normalize_url(a), normalize_url(b) and normalize_url(normalize_url(a))
Call_normalize_url ==
    /\ call.fn = "normalize_url"
    /\ ret = NoRet
    /\ ret' = [res |-> "ok", a |-> normalize_url(call.a), b |-> normalize_url(call.b),
                aa |-> normalize_url(normalize_url(call.a))]
    /\ UNCHANGED << script, run, credsOk, pc, to_send, k, sendLog, lastOutcome, err,
                    holdoff, call, procs >>
    /\ UNCHANGED << mainVars, nmVars >>

\* one pass of the loop of scrape_news over a node: the three fields as
\* dynamic_extract returned them, and what the pass did with the record
Call_scrape_news ==
    /\ call.fn = "scrape_news"
    /\ ret = NoRet
    /\ LET n == call.article
           one == IF call.scr = "MarketAlert"
                  THEN MarketAlert_ScrapeOne(SourceUrl(1), n)
                  ELSE ScrapeOne(SourceUrl(1), n)
           ext == IF call.scr = "MarketAlert"
                  THEN [title |-> MarketAlert_dynamic_extract(n, TitleTags, "").text,
                        link |-> MarketAlert_dynamic_extract(n, LinkTags, "href"),
                        description |-> MarketAlert_dynamic_extract(n, DescTags, "").text]
                  ELSE [title |-> dynamic_extract(n, TitleTags, "").text,
                        link |-> dynamic_extract(n, LinkTags, "href"),
                        description |-> dynamic_extract(n, DescTags, "").text] IN
       ret' = [res |-> one.res, item |-> one.item, title |-> ext.title,
               link |-> ext.link, description |-> ext.description]
    /\ UNCHANGED << script, run, credsOk, pc, to_send, k, sendLog, lastOutcome, err,
                    holdoff, call, procs >>
    /\ UNCHANGED << mainVars, nmVars >>

\* parse_date(date) and parse_date("Updated On : " + date)
Call_parse_date ==
    /\ call.fn = "parse_date"
    /\ ret = NoRet
    /\ ret' = IF call.scr = "MarketAlert"
              THEN [res |-> "ok", plain |-> MarketAlert_parse_date(call.date),
                    labelled |-> MarketAlert_parse_date(Labelled(call.date))]
              ELSE [res |-> "ok", plain |-> parse_date(call.date),
                    labelled |-> parse_date(Labelled(call.date))]
    /\ UNCHANGED << script, run, credsOk, pc, to_send, k, sendLog, lastOutcome, err,
                    holdoff, call, procs >>
    /\ UNCHANGED << mainVars, nmVars >>

\* dynamic_extract(element, tag_names, attribute_name)
Call_dynamic_extract ==
    /\ call.fn = "dynamic_extract"
    /\ ret = NoRet
    /\ ret' = [res |-> "ok",
               value |-> IF call.scr = "MarketAlert"
                         THEN MarketAlert_dynamic_extract(call.element, call.tag_names,
                                                          call.attribute_name)
                         ELSE dynamic_extract(call.element, call.tag_names,
                                              call.attribute_name)]
    /\ UNCHANGED << script, run, credsOk, pc, to_send, k, sendLog, lastOutcome, err,
                    holdoff, call, procs >>
    /\ UNCHANGED << mainVars, nmVars >>

FnNext ==
    \/ Call_normalize_url
    \/ Call_parse_date
    \/ Call_dynamic_extract
    \/ Call_scrape_news

FnSpec == FnInit /\ [][FnNext]_vars

\* ------------------------------------------------------- overlapping runs
\* A third specification follows two runs of process_source of
\* MarketAlert_New_Ex.py for source 1 that may overlap.  Each run has its
\* own locals (procs[p]); the files and the chat are shared.  The page may
\* change between the two fetches.
OvPages == {PageMixed, PageDup}

InFlight(p) == procs[p].pc \in {"scrape", "send", "archive", "commit"}

OvInit ==
    /\ MainInit
    /\ script = "New_Ex"
    /\ \A s \in Sources \ {1} : web[s] = PageEmpty
    /\ call = NoCall
    /\ ret = NoRet

ovFrame == << script, web, run, credsOk, pc, order, idx, sent_ids, to_send, k, attempt,
              statusMsgs, lastOutcome, firstFail, snapSent, snapArchive, fetched,
              processed, err, reads, lastPost, holdoff, call, ret >>

\* process_source of run p: read_sent_ids
Ov_ReadSentIds(p) ==
    /\ procs[p].pc = "idle"
    /\ LET r == read_sent_ids(sentFile[1])
           other == CHOOSE q \in Procs : q # p IN
       procs' = [procs EXCEPT
                   ![p] = [@ EXCEPT !.pc = IF r.res = "ok" THEN "scrape" ELSE "aborted",
                                    !.sent_ids = r.ids,
                                    !.overlap = InFlight(other)],
                   ![other] = [@ EXCEPT !.overlap = @ \/ InFlight(other)]]
    /\ UNCHANGED << sentFile, archive, sendLog, nmVars, ovFrame >>

\* process_source of run p: scrape_news and the filters
Ov_ScrapeNews(p) ==
    /\ procs[p].pc = "scrape"
    /\ \E fetch \in {"ok", "RequestException"}, page \in OvPages :
          LET r == scrape_news_once(script, SourceUrl(1), fetch, page)
              sel == SelectNew(r.items, procs[p].sent_ids) IN
          procs' = [procs EXCEPT
                      ![p] = [@ EXCEPT !.pc = IF r.res = "raise" THEN "aborted"
                                              ELSE IF r.items # << >> /\ Dispatch(sel)
                                              THEN "send" ELSE "returned",
                                       !.to_send = IF r.res = "raise" THEN << >> ELSE sel]]
    /\ UNCHANGED << sentFile, archive, sendLog, nmVars, ovFrame >>

\* process_source of run p: send_to_telegram for its next item
Ov_SendToTelegram(p) ==
    /\ procs[p].pc = "send"
    /\ \E d \in Deliveries :
          procs' = [procs EXCEPT
                      ![p] = [@ EXCEPT !.pc = IF send_to_telegram(d) # "ok" THEN "aborted"
                                              ELSE IF procs[p].k < Len(procs[p].to_send)
                                              THEN "send" ELSE "archive",
                                       !.k = IF send_to_telegram(d) = "ok" THEN @ + 1 ELSE @]]
    /\ sendLog' = Append(sendLog, [run |-> p, source |-> 1,
                                   id |-> Identity(script, procs[p].to_send[procs[p].k]),
                                   item |-> procs[p].to_send[procs[p].k],
                                   pos |-> procs[p].k])
    /\ UNCHANGED << sentFile, archive, nmVars, ovFrame >>

\* process_source of run p: create_or_update_json_feed
Ov_UpdateFeed(p) ==
    /\ procs[p].pc = "archive"
    /\ LET r == create_or_update_json_feed(archive[1], procs[p].to_send) IN
          /\ archive' = [archive EXCEPT ![1] = r.file]
          /\ procs' = [procs EXCEPT
                         ![p] = [@ EXCEPT !.pc = IF r.res = "ok" THEN "commit" ELSE "aborted"]]
    /\ UNCHANGED << sentFile, sendLog, nmVars, ovFrame >>

\* process_source of run p: write_sent_ids, the whole write under the
\* FileLock
Ov_WriteSentIds(p) ==
    /\ procs[p].pc = "commit"
    /\ sentFile' = [sentFile EXCEPT
                      ![1] = write_sent_ids(procs[p].sent_ids,
                                            IdsOf(script, procs[p].to_send))]
    /\ procs' = [procs EXCEPT ![p] = [@ EXCEPT !.pc = "returned"]]
    /\ UNCHANGED << archive, sendLog, nmVars, ovFrame >>

OvNext ==
    \E p \in Procs :
        \/ Ov_ReadSentIds(p)
        \/ Ov_ScrapeNews(p)
        \/ Ov_SendToTelegram(p)
        \/ Ov_UpdateFeed(p)
        \/ Ov_WriteSentIds(p)

OverlapSpec == OvInit /\ [][OvNext]_vars

\* ================================================================== claims
\* identities a store file holds (none when it is absent or undecodable)
StoreSet(file) == IF file.kind = "list" THEN file.ids ELSE {}
TitleSet(file) ==
    IF file.kind = "list" THEN { file.list[i] : i \in 1..Len(file.list) } ELSE {}

\* positions of sendLog holding the delivery calls of run r for source s
Calls(r, s) == { i \in 1..Len(sendLog) : sendLog[i].run = r /\ sendLog[i].source = s }

RunEnded == pc \in {"done", "aborted"} /\ run >= 1

\* C1: across the runs, no identity of a source is handed to
\* send_to_telegram / send_telegram more than once, also when the source
\* lists the same identity twice in one run.
C1_AtMostOneDeliveryPerIdentity ==
    \A i, j \in 1..Len(sendLog) :
        (i # j /\ sendLog[i].source = sendLog[j].source) => sendLog[i].id # sendLog[j].id

\* C2: whenever a delivery attempt for an identity has started, the
\* persisted store of its source already records that identity.
C2_RecordedBeforeAttempt ==
    \A i \in 1..Len(sendLog) :
        IF sendLog[i].source \in Sources
        THEN sendLog[i].id \in StoreSet(sentFile[sendLog[i].source])
        ELSE sendLog[i].id.text \in TitleSet(nmSent)

\* C3: when a source of the New_Ex script served the five-record page
\* (two records without link, one of yesterday, one excluded, one fresh)
\* and the fresh record's identity was not in the store, then after the
\* run exactly one delivery call was made for the source and its store
\* holds exactly one identity more than before the run.
C3_EndToEnd ==
    \A s \in Sources :
        ( /\ script = "New_Ex"
          /\ RunEnded
          /\ s \in fetched
          /\ web[s] = PageMixed
          /\ Url(SourceHosts[s], "a", "", "") \notin StoreSet(snapSent[s]) )
        => /\ Cardinality(Calls(run, s)) = 1
           /\ Cardinality(StoreSet(sentFile[s])) = Cardinality(StoreSet(snapSent[s])) + 1

\* C4: once process_source is over for a source, every identity it
\* attempted to deliver in this run is in the source's persisted store,
\* whatever the endpoint answered; and once a delivery of the source has
\* failed and the send loop is over, every item of new_items_to_send has
\* still been attempted.
Over(s) == s \in processed \/ (pc = "aborted" /\ run >= 1 /\ s = src)

C4_AttemptedIdentitiesStored ==
    /\ \A s \in Sources : Over(s) =>
          \A i \in Calls(run, s) : sendLog[i].id \in StoreSet(sentFile[s])
    /\ (firstFail # 0 /\ pc # "send") =>
          Cardinality(Calls(run, sendLog[Len(sendLog)].source)) = Len(to_send)

\* C5: no step of the program removes an identity from a persisted
\* identity set: each write is a superset of what was there.
C5_IdentitySetGrows ==
    [][ /\ \A s \in Sources : StoreSet(sentFile[s]) \subseteq StoreSet(sentFile'[s])
        /\ TitleSet(nmSent) \subseteq TitleSet(nmSent') ]_vars

\* a store that held identities before the run and holds more now
C5_Witness ==
    \E s \in Sources :
        /\ StoreSet(snapSent[s]) # {}
        /\ StoreSet(snapSent[s]) \subseteq StoreSet(sentFile[s])
        /\ StoreSet(snapSent[s]) # StoreSet(sentFile[s])

\* C6: a source for which the current run has made no delivery call has
\* its identity-store file and its archive file exactly as they were
\* when the run started.
C6_NoDispatchNoWrite ==
    \A s \in Sources :
        Calls(run, s) = {} => (sentFile[s] = snapSent[s] /\ archive[s] = snapArchive[s])

\* process_source returned for a source that yielded records, all of
\* them filtered out
C6_Witness ==
    \E s \in processed \cap fetched :
        /\ web[s] = PageMixed
        /\ Calls(run, s) = {}
        /\ sentFile[s] = snapSent[s]
        /\ archive[s] = snapArchive[s]

\* C7: the archive merge writes exactly the existing items dated today,
\* in stored order, followed by the new items dated today, in the order
\* given.
DatedToday(item) ==
    item.pubDate.fmt \in {"iso", "dmy_text", "rfc822"} /\ item.pubDate.day = Today
ExistingItems(file) == IF file.kind = "feed" THEN file.items ELSE << >>

C7_ArchiveMerge ==
    [][ (pc = "archive" /\ pc' = "commit") =>
           archive'[src].items =
               SelectSeq(ExistingItems(archive[src]), DatedToday)
                   \o SelectSeq(to_send, DatedToday) ]_vars

\* C8: loading the identity store never raises to its caller, whatever
\* the backing file holds.
C8_LoadNeverRaises == err \notin {"read_sent_ids", "load_json_file"}

\* C9: the archive merge never raises on an invalid existing archive: it
\* goes on to write the new items.
C9_MergeNeverRaises == err # "create_or_update_json_feed"

\* C10: a run of main with valid credentials that has ended has
\* processed every configured source: no error of one source keeps the
\* others from being processed.
C10_EverySourceProcessed ==
    (script # "NewMA" /\ RunEnded /\ credsOk) => processed = Sources

\* C11: a source is given up for the run with zero records after a failed
\* HTTP fetch only when the fetch has been attempted stop_after_attempt
\* times.
C11_FetchRetriedBeforeAbandon ==
    [][ (pc = "scrape" /\ src \in processed' /\ src \notin fetched')
            => attempt = stop_after_attempt ]_vars

\* C12: a run started without credentials has returned at once: no source
\* fetched, no identity-store or archive file changed, no delivery call
\* made.
C12_NoCredentialsNothingTouched ==
    (run >= 1 /\ ~credsOk) =>
        /\ pc = "done"
        /\ fetched = {}
        /\ sentFile = snapSent
        /\ archive = snapArchive
        /\ \A i \in 1..Len(sendLog) : sendLog[i].run # run

\* C13: no delivery attempt starts while a wait advised by a 429 answer
\* has not elapsed, and a delivery answered with 429 does not end in an
\* error.
DeliveryStep == Len(sendLog') > Len(sendLog) \/ statusMsgs' > statusMsgs

C13_RateLimitWaitHonoured ==
    [][ DeliveryStep =>
            /\ holdoff = 0
            /\ lastOutcome' = "rate_limited" => err' = err ]_vars

\* C14: send_telegram posts an article with an image as photo with
\* caption first; when that POST fails, or when the article has no image,
\* it posts a text-only message.
C14_ImageThenTextFallback ==
    \A i \in 1..Len(sendLog) :
        sendLog[i].source \notin Sources =>
            LET item == sendLog[i].item
                posts == sendLog[i].posts IN
            /\ item.image => posts[1].method = "sendPhoto"
            /\ ~item.image => \E j \in 1..Len(posts) : posts[j].method = "sendMessage"
            /\ (item.image /\ posts[1].status # "ok") =>
                   \E j \in 2..Len(posts) : posts[j].method = "sendMessage"

\* C15: every image caption posted is at most CaptionLimit characters
\* long and ends with the watermark; every text body posted is at most
\* TextLimit characters long.
C15_PayloadWithinLimits ==
    \A i \in 1..Len(sendLog) :
        sendLog[i].source \notin Sources =>
            \A j \in 1..Len(sendLog[i].posts) :
                LET post == sendLog[i].posts[j] IN
                IF post.method = "sendPhoto"
                THEN post.payload.len <= CaptionLimit /\ post.payload.watermark
                ELSE post.payload.len <= TextLimit

\* the records scrape_news yields for what source s serves
Yielded(s) ==
    LET r == scrape_once(script, s, SourceUrl(s), "ok", web[s]) IN
    IF r.res = "ok" THEN r.items ELSE << >>

\* identities of the yielded records that satisfy Bad
BadIds(s, Bad(_)) ==
    { Identity(script, Yielded(s)[n]) : n \in { m \in 1..Len(Yielded(s)) : Bad(Yielded(s)[m]) } }

\* items the archive of s has gained in the current run
ArchivedInRun(s) ==
    { ExistingItems(archive[s])[n] : n \in 1..Len(ExistingItems(archive[s])) }
        \ { ExistingItems(snapArchive[s])[n] : n \in 1..Len(ExistingItems(snapArchive[s])) }

\* identities the store of s has gained in the current run
StoredInRun(s) == StoreSet(sentFile[s]) \ StoreSet(snapSent[s])

Excluded(item) == MatchesExcluded(item.title, item.description)

\* C16: an article whose title or description contains an exclusion
\* keyword, in any letter case, is not delivered, not archived, and its
\* identity is not added to the identity store.
C16_ExcludedNeverProcessed ==
    /\ \A i \in 1..Len(sendLog) :
          sendLog[i].source \in Sources => ~Excluded(sendLog[i].item)
    /\ \A s \in Sources :
          /\ \A item \in ArchivedInRun(s) : ~Excluded(item)
          /\ BadIds(s, Excluded) \cap StoredInRun(s) = {}

NotToday(item) == ~DatedToday(item)

\* C17: every article process_source delivers is dated today; an article
\* of another day is not delivered, not archived, and its identity is not
\* added to the identity store.
C17_OnlyTodayProcessed ==
    /\ \A i \in 1..Len(sendLog) :
          sendLog[i].source \in Sources => DatedToday(sendLog[i].item)
    /\ \A s \in Sources :
          /\ \A item \in ArchivedInRun(s) : DatedToday(item)
          /\ BadIds(s, NotToday) \cap StoredInRun(s) = {}

\* C18: the delivery calls of one run for one source are issued in the
\* order in which the source yielded the articles, also through the
\* worker pool.
C18_DeliveryInYieldOrder ==
    \A i, j \in 1..Len(sendLog) :
        (i < j /\ sendLog[i].run = sendLog[j].run /\ sendLog[i].source = sendLog[j].source)
            => sendLog[i].pos < sendLog[j].pos

\* C19: for links a and b with the same scheme, host and path (the path
\* with its parameters) that differ in query or fragment,
\* normalize_url(a) = normalize_url(b); the result has the scheme, host
\* and path of its argument; and normalize_url is idempotent.
SamePlace(a, b) == a.host = b.host /\ a.path = b.path /\ a.params = b.params

C19_NormalizeUrl ==
    (call.fn = "normalize_url" /\ ret # NoRet) =>
        /\ SamePlace(call.a, call.b) => ret.a = ret.b
        /\ SamePlace(ret.a, call.a)
        /\ ret.aa = ret.a

\* C20: a pass of scrape_news over a record emits an article exactly when
\* the link is non-empty (the title falling back to the description and
\* then to "No title" is never empty), and the article carries that
\* title.
FallbackTitle ==
    IF ret.title # EmptyText THEN ret.title
    ELSE IF ret.description # EmptyText THEN ret.description ELSE NoTitle

C20_FieldFallback ==
    (call.fn = "scrape_news" /\ ret # NoRet) =>
        /\ ret.res = "keep" <=> ret.link # NoLink
        /\ ret.res = "keep" => ret.item[1].title = FallbackTitle

\* C21: parse_date applied to a string that neither the explicit formats
\* nor the lenient parse can read, with or without the label, returns the
\* current instant and does not raise.
Unparseable(dt) == dt.fmt \in {"garbage", "overflow"}

C21_ParseDateTotal ==
    (call.fn = "parse_date" /\ ret # NoRet /\ Unparseable(call.date)) =>
        /\ ret.plain = [res |-> "ok", pubDate |-> NowIso]
        /\ ret.labelled = [res |-> "ok", pubDate |-> NowIso]

\* C22: parse_date of a date string carrying the "Updated On :" label
\* gives the instant parse_date gives for the string without the label,
\* and in MarketAlert.py a string in one of the explicit formats is read
\* by that format, not by the lenient parse.
ExplicitFormat(dt) == dt.fmt \in {"iso", "dmy_text", "dmy_slash"}

C22_LabelStripped ==
    (call.fn = "parse_date" /\ ret # NoRet /\ ~Unparseable(call.date)) =>
        /\ ret.labelled = ret.plain
        /\ ret.plain.res = "ok"
        /\ (call.scr = "MarketAlert" /\ ExplicitFormat(call.date)) =>
               ret.labelled.pubDate = Date("iso", call.date.day)

\* "Updated On : 05/01/2024 10:30" read by MarketAlert.py as 5 January
C22_Witness ==
    /\ call.fn = "parse_date"
    /\ call.scr = "MarketAlert"
    /\ call.date = Date("dmy_slash", Today)
    /\ ret # NoRet
    /\ ret.labelled = [res |-> "ok", pubDate |-> Date("iso", Today)]

\* C23: a run of main with valid credentials that has completed has
\* processed every configured source and has read each source exactly
\* once.
C23_EachSourceOncePerRun ==
    (script # "NewMA" /\ pc = "done" /\ run >= 1 /\ credsOk) =>
        /\ processed = Sources
        /\ \A s \in Sources : reads[s] = 1

\* C24: no two configured sources share an identity-store file or an
\* archive file, and a step of process_source for a source reads that
\* source's identity store and leaves the identity store and the archive
\* of every other source as they were.
NoSharedFile ==
    \A a, b \in ConfiguredSources(script) :
        a # b => /\ sent_ids_file(script, a) # sent_ids_file(script, b)
                 /\ output_file(script, a) # output_file(script, b)

InProcessSource == pc \in {"read", "scrape", "send", "archive", "commit"}

C24_SourceOwnsItsFiles ==
    [][ /\ NoSharedFile
        /\ InProcessSource =>
              /\ \A s \in Sources \ {src} :
                    sentFile'[s] = sentFile[s] /\ archive'[s] = archive[s]
              /\ (pc = "read" /\ pc' = "scrape") => sent_ids' = StoreSet(sentFile[src]) ]_vars

\* the yielded records that the date and keyword filters of the script
\* let through to the dedup stage
Reaching(s) ==
    IF script = "MarketAlert" THEN Yielded(s)
    ELSE SelectSeq(SelectSeq(Yielded(s), IsToday), NotExcluded)

\* a link that names a place: a URL with scheme and host, not a text and
\* not the placeholder
Resolvable(link) == link.host # "" /\ link.text = EmptyText

\* C25: every article of a fetched source that reaches the dedup stage of
\* process_source has a non-empty, resolvable link; no article carries a
\* placeholder link.
C25_LinkNonEmptyAtDedup ==
    \A s \in fetched :
        \A n \in 1..Len(Reaching(s)) :
            /\ Reaching(s)[n].link # NoLink
            /\ Reaching(s)[n].link # Placeholder
            /\ Resolvable(Reaching(s)[n].link)

\* the value a candidate tag gives for a field: the href attribute when a
\* link is asked for, the text otherwise; NoLink (the empty string) when
\* the element or the attribute is not there
CandidateValue(element, tag_name, attribute_name) ==
    LET t == Find(element, tag_name) IN
    IF t = 0 THEN NoLink
    ELSE IF attribute_name = "href"
         THEN (IF element[t].hasHref THEN element[t].href ELSE NoLink)
         ELSE TextLink(element[t].text)

RECURSIVE FirstNonEmpty(_, _, _, _)
FirstNonEmpty(element, tag_names, attribute_name, n) ==
    IF n > Len(tag_names) THEN NoLink
    ELSE IF CandidateValue(element, tag_names[n], attribute_name) # NoLink
         THEN CandidateValue(element, tag_names[n], attribute_name)
         ELSE FirstNonEmpty(element, tag_names, attribute_name, n + 1)

\* C26: dynamic_extract returns the value of the first candidate, in the
\* priority order given, whose value is not empty (the empty string when
\* there is none), and when a link is asked for the value is an href
\* attribute, never the text of an element.
C26_FirstNonEmptyCandidate ==
    (call.fn = "dynamic_extract" /\ ret # NoRet) =>
        /\ ret.value = FirstNonEmpty(call.element, call.tag_names, call.attribute_name, 1)
        /\ call.attribute_name = "href" => ret.value.text = EmptyText

\* C27: when process_source has returned for a source it fetched, every
\* article that reached the dedup stage with an identity that was not in
\* the source's store has had a delivery call in this run; and when a run
\* of NewMA.py has completed, an article the fetchers returned has had a
\* delivery call also when another article with its title, under another
\* link, has had one.
C27_FreshArticlesAttempted ==
    /\ \A s \in processed \cap fetched :
          \A n \in 1..Len(Reaching(s)) :
              Identity(script, Reaching(s)[n]) \notin StoreSet(snapSent[s])
                  => \E i \in Calls(run, s) : sendLog[i].item = Reaching(s)[n]
    /\ (script = "NewMA" /\ pc = "done" /\ run >= 1) =>
          \A n \in 1..Len(news) :
              (\E i \in 1..Len(sendLog) : /\ sendLog[i].item.title = news[n].title
                                          /\ sendLog[i].item.url # news[n].url)
                  => \E i \in 1..Len(sendLog) : sendLog[i].item.url = news[n].url

\* C28: every payload posted, by send_to_telegram of the main scripts
\* (article or end-of-run message) and by every POST of send_telegram
\* (first attempt or second), ends with the watermark and holds it exactly
\* once.
Watermarked(payload) == payload.watermark /\ payload.marks = 1

C28_WatermarkExactlyOnce ==
    /\ lastPost # NoPost => Watermarked(lastPost)
    /\ \A i \in 1..Len(sendLog) :
          sendLog[i].source \notin Sources =>
              \A j \in 1..Len(sendLog[i].posts) : Watermarked(sendLog[i].posts[j].payload)

\* C29: when process_source has returned for a source, no two items its
\* archive gained in the run have the same identity, and the identity of
\* every item gained is in the source's identity store.
C29_ArchiveAgreesWithStore ==
    \A s \in processed :
        /\ \A x, y \in ArchivedInRun(s) :
              x # y => Identity(script, x) # Identity(script, y)
        /\ \A x \in ArchivedInRun(s) : Identity(script, x) \in StoreSet(sentFile[s])

\* C30: when two runs of process_source for one source have overlapped
\* and both have returned, the identity store holds every identity either
\* run attempted to deliver, and no identity was delivered by both runs.
C30_OverlappingRuns ==
    ( /\ \A p \in Procs : procs[p].pc = "returned"
      /\ \E p \in Procs : procs[p].overlap ) =>
        /\ \A i \in 1..Len(sendLog) : sendLog[i].id \in StoreSet(sentFile[1])
        /\ \A i, j \in 1..Len(sendLog) :
              sendLog[i].run # sendLog[j].run => sendLog[i].id # sendLog[j].id

====
